---- MODULE Spec2Model ----
(***************************************************************************)
(* Model of the sales-return form (ReturnForm) of                          *)
(* client/src/components/products/edit-product-modal.tsx: the draft held   *)
(* by react-hook-form, the zod schema that gates submission, the           *)
(* create-return mutation and its success / error handlers.                *)
(* The user-visible texts of the source are Arabic; they are written here  *)
(* as ASCII stand-ins, one distinct string per distinct source string.     *)
(***************************************************************************)
EXTENDS Integers, Sequences, FiniteSets, TLC

(* ------------------------------ bounds --------------------------------- *)
\* the largest number of item cards of a draft the user has filled in
MaxItems == 2
\* the largest number of edits (changes of a control, add and remove clicks)
\* of a session
MaxEdits == 6
\* the largest number of times the user presses the submit button
MaxSubmits == 2

(* ------------------------- input alphabets ----------------------------- *)
\* ids of the sales the gateway knows: the sale selector reports one of them
\* once it is rendered as an option
SaleIds == {"S0", "S1"}
\* ids the handler of the sale selector is applied to on its own: the empty
\* one and S2 belong to no sale of any answer
HandlerSaleIds == {"", "S0", "S1", "S2"}
\* the answer of GET /api/sales
SalesResponse == << [id |-> "S0", total |-> "80.50"],
                    [id |-> "S1", total |-> "150.00"] >>
\* the two SelectItem values of the return-type selector
ReturnTypeOptions == {"refund", "exchange"}
\* texts the user types into the refund-amount input
RefundTexts == {"", "20"}
\* product ids offered by the product selector
ProductIds == {"P1"}
\* texts typed into the colour and size inputs
ColorTexts == {"", "black"}
SizeTexts == {"", "L"}
\* texts typed into the quantity input, as character sequences
QuantityTexts == { <<"2">>, <<"-", "3">>, <<"0">>, <<>> }
\* drafts the user has filled in before turning to the submit button: each
\* value is one the controls of the form can bring about
FilledSaleIds == {"", "S1"}
FilledReturnTypes == {"", "refund", "exchange"}
FilledRefunds == {"", "0", "20"}
FilledItems ==
  { [productId |-> "", color |-> "", size |-> "", quantity |-> 1],
    [productId |-> "P1", color |-> "black", size |-> "L", quantity |-> 1],
    [productId |-> "P1", color |-> "black", size |-> "L", quantity |-> 2],
    [productId |-> "P1", color |-> "black", size |-> "L", quantity |-> -3],
    [productId |-> "", color |-> "black", size |-> "L", quantity |-> 1],
    [productId |-> "P1", color |-> "", size |-> "L", quantity |-> 1],
    [productId |-> "P1", color |-> "black", size |-> "", quantity |-> 2] }
\* the product prop of the edit modal (prices as the decimal strings the
\* API delivers, so that toString() leaves them as they are)
Product == [id |-> "P1", modelNumber |-> "M1", companyName |-> "ACME",
            productType |-> "dress", storePrice |-> "100", onlinePrice |-> "120"]
\* the SelectItem values of the product-type selector
ProductTypeOptions == {"dress", "evening-wear", "hijab", "abaya", "accessories"}
\* texts typed into the text and number inputs of the edit modal
ModelTexts == {"", "M2"}
CompanyTexts == {"Zed"}
PriceTexts == {"", "99.50"}
\* ways the PUT request fails: a non-2xx answer, or a rejected fetch
PutFailures == {"not ok", "rejected"}
\* what the rejected promise of the mutation function can carry
Rejections == { [isError |-> TRUE, message |-> "stock mismatch"],
                [isError |-> FALSE, message |-> ""] }

(* ------------------------------ state ---------------------------------- *)
VARIABLES
  open,            \* the form is mounted (the parent has not closed it)
  sales,           \* useQuery data of /api/sales: undefined, or a sequence
  originalSaleId,  \* form value
  returnType,      \* form value
  refundAmount,    \* form value
  items,           \* form value: the field array
  fieldErrors,     \* formState.errors, as a set of field paths
  status,          \* createReturnMutation.status
  inflight,        \* POST /api/returns bodies sent and not yet answered
  toasts,          \* notifications shown, oldest first
  invalidated,     \* query keys invalidated so far
  onCloseCalls,    \* number of calls of the onClose prop
  submits,         \* number of submit events of the form
  posts,           \* number of POST /api/returns requests sent
  resolved,        \* outcome of a stand-alone run of the resolver
  modalOpen,       \* EditProductModal: the open prop
  formData,        \* EditProductModal: useState formData
  updateStatus,    \* updateProductMutation.status
  puts,            \* PUT /api/products/:id requests sent and not yet answered
  updates,         \* number of PUT requests sent
  onOpenChangeCalls, \* number of calls of onOpenChange(false)
  renderedPending, \* isPending as the last render of the edit modal read it
  responses,       \* how the PUT requests answered so far have ended
  edits,           \* number of edit events the return form has handled
  removes          \* number of remove clicks among them

\* the state of the product edit modal
productVars == << modalOpen, formData, updateStatus, puts, updates,
                  onOpenChangeCalls, renderedPending, responses >>

vars == << open, sales, originalSaleId, returnType, refundAmount, items,
           fieldErrors, status, inflight, toasts, invalidated, onCloseCalls,
           submits, posts, resolved, productVars, edits, removes >>

draftVars == << originalSaleId, returnType, refundAmount, items >>
effectVars == << toasts, invalidated, onCloseCalls >>
mutationVars == << status, inflight, posts >>

(* ----------------------- constants of the source ----------------------- *)
\* defaultValues.items[0] and the argument of append(...)
EmptyItem == [productId |-> "", color |-> "", size |-> "", quantity |-> 1]

\* query keys passed to invalidateQueries
ReturnsKey == "/api/returns"
ProductsKey == "/api/products"
StatsKey == "/api/dashboard/stats"

\* the toast of onSuccess
SuccessToast == [title |-> "return recorded",
                 description |-> "return saved and stock updated",
                 variant |-> "default"]
\* title and fallback description of the toast of onError
ErrorTitle == "return failed"
FallbackMessage == "unexpected error"

(* --------------------------- pure functions ---------------------------- *)
\* z.string().min(1, ...): the string has at least one character
MinOne(s) == Len(s) >= 1

\* one entry of formState.errors: a top-level field, or a key of items[index]
\* (index counted from 0 as in the path items.0.productId; -1: no index)
FieldError(field, index, key) == [field |-> field, index |-> index, key |-> key]

\* a resolver that stops at the first failing key of an element
ItemErrorsFirstOnly(its, i) ==
  IF ~MinOne(its[i].productId) THEN {FieldError("items", i - 1, "productId")}
  ELSE IF ~MinOne(its[i].color) THEN {FieldError("items", i - 1, "color")}
  ELSE IF ~MinOne(its[i].size) THEN {FieldError("items", i - 1, "size")}
  ELSE IF ~(its[i].quantity >= 1) THEN {FieldError("items", i - 1, "quantity")}
  ELSE {}

\* the issues zod reports for the element its[i] (i counted from 1 here)
ItemErrors(its, i) ==
  (IF MinOne(its[i].productId) THEN {} ELSE {FieldError("items", i - 1, "productId")})
  \cup (IF MinOne(its[i].color) THEN {} ELSE {FieldError("items", i - 1, "color")})
  \cup (IF MinOne(its[i].size) THEN {} ELSE {FieldError("items", i - 1, "size")})
  \cup (IF its[i].quantity >= 1 THEN {} ELSE {FieldError("items", i - 1, "quantity")})

\* a schema that checks the header fields and not the items
validateHeaderOnly(data) ==
  (IF MinOne(data.originalSaleId) THEN {} ELSE {FieldError("originalSaleId", -1, "")})
  \cup (IF MinOne(data.returnType) THEN {} ELSE {FieldError("returnType", -1, "")})
  \cup (IF MinOne(data.refundAmount) THEN {} ELSE {FieldError("refundAmount", -1, "")})

\* a schema that lets an empty returnType pass
validateNoReturnType(data) ==
  (IF MinOne(data.originalSaleId) THEN {} ELSE {FieldError("originalSaleId", -1, "")})
  \cup (IF MinOne(data.refundAmount) THEN {} ELSE {FieldError("refundAmount", -1, "")})
  \cup (IF Len(data.items) >= 1 THEN {} ELSE {FieldError("items", -1, "")})
  \cup UNION {ItemErrors(data.items, i) : i \in 1..Len(data.items)}

\* zodResolver(returnFormSchema): every failing check contributes its path
validate(data) ==
  (IF MinOne(data.originalSaleId) THEN {} ELSE {FieldError("originalSaleId", -1, "")})
  \cup (IF MinOne(data.returnType) THEN {} ELSE {FieldError("returnType", -1, "")})
  \cup (IF MinOne(data.refundAmount) THEN {} ELSE {FieldError("refundAmount", -1, "")})
  \cup (IF Len(data.items) >= 1 THEN {} ELSE {FieldError("items", -1, "")})
  \cup UNION {ItemErrors(data.items, i) : i \in 1..Len(data.items)}

\* a body whose item list is in reverse order
buildPayloadReversed(data) ==
  [return |-> [originalSaleId |-> data.originalSaleId,
               returnType |-> data.returnType,
               refundAmount |-> data.refundAmount],
   items |-> [i \in 1..Len(data.items) |->
                [productId |-> data.items[Len(data.items) + 1 - i].productId,
                 color |-> data.items[Len(data.items) + 1 - i].color,
                 size |-> data.items[Len(data.items) + 1 - i].size,
                 quantity |-> data.items[Len(data.items) + 1 - i].quantity]]]

\* the body built by onSubmit: header fields apart from the item list
buildPayload(data) ==
  [return |-> [originalSaleId |-> data.originalSaleId,
               returnType |-> data.returnType,
               refundAmount |-> data.refundAmount],
   items |-> [i \in 1..Len(data.items) |->
                [productId |-> data.items[i].productId,
                 color |-> data.items[i].color,
                 size |-> data.items[i].size,
                 quantity |-> data.items[i].quantity]]]

\* sales?.find(s => s.id === saleId): index of the first match, 0 for none
findSale(q, saleId) ==
  IF ~q.defined THEN 0
  ELSE IF \E i \in 1..Len(q.data) : q.data[i].id = saleId
       THEN CHOOSE i \in 1..Len(q.data) :
              /\ q.data[i].id = saleId
              /\ \A j \in 1..(i - 1) : q.data[j].id # saleId
       ELSE 0

\* a handler that takes the total of the first sale of the collection
handleSaleChangeFirst(q, saleId, prior) ==
  IF q.defined /\ q.data # <<>> THEN q.data[1].total ELSE prior

\* handleSaleChange: the refund amount after selecting saleId
handleSaleChange(q, saleId, prior) ==
  IF findSale(q, saleId) # 0 THEN q.data[findSale(q, saleId)].total ELSE prior

\* a field array that puts the new value first
appendFirst(its, value) == <<value>> \o its

\* useFieldArray.append(value)
append(its, value) == Append(its, value)

\* useFieldArray.remove(index), index counted from 1
remove(its, index) ==
  [j \in 1..(Len(its) - 1) |-> IF j < index THEN its[j] ELSE its[j + 1]]

\* parseInt(text) without radix: leading white space, an optional sign, then
\* the longest prefix of digits, hexadecimal after 0x and decimal otherwise;
\* NaN when there is no digit
Digits == <<"0", "1", "2", "3", "4", "5", "6", "7", "8", "9",
            "a", "b", "c", "d", "e", "f">>
UpperDigits == <<"0", "1", "2", "3", "4", "5", "6", "7", "8", "9",
                 "A", "B", "C", "D", "E", "F">>
IsDigit(c, radix) == \E d \in 1..radix : Digits[d] = c \/ UpperDigits[d] = c
DigitValue(c, radix) ==
  (CHOOSE d \in 1..radix : Digits[d] = c \/ UpperDigits[d] = c) - 1

RECURSIVE parseDigits(_, _, _)
parseDigits(text, radix, acc) ==
  IF text = <<>> \/ ~IsDigit(Head(text), radix) THEN acc
  ELSE parseDigits(Tail(text), radix, radix * acc + DigitValue(Head(text), radix))

\* StrWhiteSpaceChar: white space and line terminators; a character outside
\* ASCII, or without an escape, is written as the name of its code point
StrWhiteSpaceChar ==
  {" ", "\t", "\n", "\r", "\f", "U+000B", "U+00A0", "U+1680", "U+2000",
   "U+2001", "U+2002", "U+2003", "U+2004", "U+2005", "U+2006", "U+2007",
   "U+2008", "U+2009", "U+200A", "U+2028", "U+2029", "U+202F", "U+205F",
   "U+3000", "U+FEFF"}

RECURSIVE skipSpaces(_)
skipSpaces(text) ==
  IF text # <<>> /\ Head(text) \in StrWhiteSpaceChar
  THEN skipSpaces(Tail(text)) ELSE text

parseInt(text) ==
  LET t == skipSpaces(text)
      neg == t # <<>> /\ Head(t) = "-"
      u == IF t # <<>> /\ Head(t) \in {"-", "+"} THEN Tail(t) ELSE t
      hex == Len(u) >= 2 /\ u[1] = "0" /\ u[2] \in {"x", "X"}
      radix == IF hex THEN 16 ELSE 10
      v == IF hex THEN Tail(Tail(u)) ELSE u
  IN IF v = <<>> \/ ~IsDigit(Head(v), radix)
     THEN [nan |-> TRUE, value |-> 0]
     ELSE [nan |-> FALSE,
           value |-> IF neg THEN 0 - parseDigits(v, radix, 0)
                     ELSE parseDigits(v, radix, 0)]

\* String(n) of an integer, as the quantity input shows it (value={field.value})
RECURSIVE naturalToString(_)
naturalToString(n) ==
  IF n < 10 THEN <<Digits[n + 1]>>
  ELSE naturalToString(n \div 10) \o <<Digits[(n % 10) + 1]>>

numberToString(n) ==
  IF n < 0 THEN <<"-">> \o naturalToString(0 - n) ELSE naturalToString(n)

\* parseInt(e.target.value) || 1
quantityOnChange(text) ==
  IF parseInt(text).nan \/ parseInt(text).value = 0 THEN 1 ELSE parseInt(text).value

\* the draft as react-hook-form hands it to the resolver
draft == [originalSaleId |-> originalSaleId, returnType |-> returnType,
          refundAmount |-> refundAmount, items |-> items]

\* formState.isSubmitted: handleSubmit has run at least once
isSubmitted == submits >= 1

\* what field.onChange does to formState.errors (mode onSubmit, reValidateMode
\* onChange): nothing before the first submit; after it the resolver runs on
\* the new values and the entry of the changed field alone is rewritten
revalidate(data, path) ==
  IF isSubmitted
  THEN (fieldErrors \ {path}) \cup (validate(data) \cap {path})
  ELSE fieldErrors

\* a submit control that is never disabled
isPendingNever == FALSE

\* disabled={createReturnMutation.isPending}
isPending == status = "pending"

(* ------------------------------- Init ---------------------------------- *)
\* the resolver has not been run on its own
NotResolved == [ran |-> FALSE, errors |-> {}]

\* useQuery data before the answer, and after it
SalesUndefined == [defined |-> FALSE, data |-> <<>>]
SalesLoaded == [defined |-> TRUE, data |-> SalesResponse]

\* everything but the draft and the query data right after construction: an
\* idle mutation, nothing shown, nothing invalidated
Mounted ==
  /\ open = TRUE
  /\ fieldErrors = {}
  /\ status = "idle"
  /\ inflight = <<>>
  /\ toasts = <<>>
  /\ invalidated = {}
  /\ onCloseCalls = 0
  /\ submits = 0
  /\ posts = 0
  /\ resolved = NotResolved
  /\ modalOpen = TRUE
  /\ formData = [modelNumber |-> Product.modelNumber,
                 companyName |-> Product.companyName,
                 productType |-> Product.productType,
                 storePrice |-> Product.storePrice,
                 onlinePrice |-> Product.onlinePrice]
  /\ updateStatus = "idle"
  /\ puts = <<>>
  /\ updates = 0
  /\ onOpenChangeCalls = 0
  /\ renderedPending = FALSE
  /\ responses = <<>>
  /\ edits = 0
  /\ removes = 0

\* useForm defaultValues
Construct ==
  /\ Mounted
  /\ sales = SalesUndefined
  /\ originalSaleId = ""
  /\ returnType = ""
  /\ refundAmount = "0"
  /\ items = <<EmptyItem>>

(* -------------------------- editing the draft -------------------------- *)
\* the sales query resolves
FetchSales ==
  /\ open
  /\ ~sales.defined
  /\ sales' = SalesLoaded
  /\ UNCHANGED << open, draftVars, fieldErrors, mutationVars, effectVars,
                  submits, resolved, productVars,
                  edits, removes >>

\* sales?.map(sale => <SelectItem value={sale.id}>): the ids the sale
\* selector offers, none before the sales have arrived
saleOptions ==
  IF sales.defined THEN {sales.data[k].id : k \in 1..Len(sales.data)} ELSE {}

\* onValueChange of the sale selector: field.onChange(value), which validates
\* originalSaleId again, then handleSaleChange(value), whose setValue of
\* refundAmount validates nothing
onSaleValueChange(saleId) ==
  /\ edits < MaxEdits
  /\ originalSaleId' = saleId
  /\ refundAmount' = handleSaleChange(sales, saleId, refundAmount)
  /\ fieldErrors' = revalidate([draft EXCEPT !.originalSaleId = saleId],
                               FieldError("originalSaleId", -1, ""))
  /\ edits' = edits + 1
  /\ UNCHANGED << open, sales, returnType, items, mutationVars,
                  effectVars, submits, resolved, productVars,
                  removes >>

\* the user picks one of the offered sales: the Select keeps the picked value
\* (defaultValue, no value prop) and calls onValueChange only when the value
\* changes, so picking the selected sale again runs no handler
ChangeSale(saleId) ==
  /\ open
  /\ saleId \in saleOptions
  /\ saleId # originalSaleId
  /\ onSaleValueChange(saleId)

\* a return-type selector that derives the refund amount again for the
\* selected sale
ChangeReturnTypeRederive(value) ==
  /\ open
  /\ edits < MaxEdits
  /\ value # returnType
  /\ returnType' = value
  /\ refundAmount' = handleSaleChange(sales, originalSaleId, refundAmount)
  /\ fieldErrors' = revalidate([draft EXCEPT !.returnType = value],
                               FieldError("returnType", -1, ""))
  /\ edits' = edits + 1
  /\ UNCHANGED << open, sales, originalSaleId, items,
                  mutationVars, effectVars, submits, resolved, productVars,
                  removes >>

\* onValueChange of the return-type selector, called when the value changes
ChangeReturnType(value) ==
  /\ open
  /\ edits < MaxEdits
  /\ value # returnType
  /\ returnType' = value
  /\ fieldErrors' = revalidate([draft EXCEPT !.returnType = value],
                               FieldError("returnType", -1, ""))
  /\ edits' = edits + 1
  /\ UNCHANGED << open, sales, originalSaleId, refundAmount, items,
                  mutationVars, effectVars, submits, resolved, productVars,
                  removes >>

\* onChange of the refund-amount input: the input is controlled ({...field}),
\* so an event comes only with a text other than the one held
ChangeRefundAmount(text) ==
  /\ open
  /\ edits < MaxEdits
  /\ text # refundAmount
  /\ refundAmount' = text
  /\ fieldErrors' = revalidate([draft EXCEPT !.refundAmount = text],
                               FieldError("refundAmount", -1, ""))
  /\ edits' = edits + 1
  /\ UNCHANGED << open, sales, originalSaleId, returnType, items,
                  mutationVars, effectVars, submits, resolved, productVars,
                  removes >>

\* onValueChange of the product selector of card i
ChangeProduct(i, value) ==
  /\ open
  /\ edits < MaxEdits
  /\ i \in 1..Len(items)
  /\ value # items[i].productId
  /\ items' = [items EXCEPT ![i].productId = value]
  /\ fieldErrors' = revalidate([draft EXCEPT !.items[i].productId = value],
                               FieldError("items", i - 1, "productId"))
  /\ edits' = edits + 1
  /\ UNCHANGED << open, sales, originalSaleId, returnType, refundAmount,
                  mutationVars, effectVars, submits, resolved, productVars,
                  removes >>

\* onChange of the colour input of card i, controlled as well
ChangeColor(i, text) ==
  /\ open
  /\ edits < MaxEdits
  /\ i \in 1..Len(items)
  /\ text # items[i].color
  /\ items' = [items EXCEPT ![i].color = text]
  /\ fieldErrors' = revalidate([draft EXCEPT !.items[i].color = text],
                               FieldError("items", i - 1, "color"))
  /\ edits' = edits + 1
  /\ UNCHANGED << open, sales, originalSaleId, returnType, refundAmount,
                  mutationVars, effectVars, submits, resolved, productVars,
                  removes >>

\* onChange of the size input of card i, controlled as well
ChangeSize(i, text) ==
  /\ open
  /\ edits < MaxEdits
  /\ i \in 1..Len(items)
  /\ text # items[i].size
  /\ items' = [items EXCEPT ![i].size = text]
  /\ fieldErrors' = revalidate([draft EXCEPT !.items[i].size = text],
                               FieldError("items", i - 1, "size"))
  /\ edits' = edits + 1
  /\ UNCHANGED << open, sales, originalSaleId, returnType, refundAmount,
                  mutationVars, effectVars, submits, resolved, productVars,
                  removes >>

\* onChange of the quantity input of card i: the input is controlled and shows
\* the number held, so an event comes only with another text
ChangeQuantity(i, text) ==
  /\ open
  /\ edits < MaxEdits
  /\ i \in 1..Len(items)
  /\ text # numberToString(items[i].quantity)
  /\ items' = [items EXCEPT ![i].quantity = quantityOnChange(text)]
  /\ fieldErrors' = revalidate([draft EXCEPT !.items[i].quantity = quantityOnChange(text)],
                               FieldError("items", i - 1, "quantity"))
  /\ edits' = edits + 1
  /\ UNCHANGED << open, sales, originalSaleId, returnType, refundAmount,
                  mutationVars, effectVars, submits, resolved, productVars,
                  removes >>

\* the add-item button
AppendItem ==
  /\ open
  /\ edits < MaxEdits
  /\ items' = append(items, EmptyItem)
  /\ edits' = edits + 1
  /\ UNCHANGED << open, sales, originalSaleId, returnType, refundAmount,
                  fieldErrors, mutationVars, effectVars, submits, resolved, productVars,
                  removes >>

\* remove buttons that are never disabled
removeDisabledNever == FALSE

\* disabled={fields.length === 1} of the remove buttons
removeDisabled == Len(items) = 1

\* what useFieldArray.remove(index) does to formState.errors (index counted
\* from 1): the entries of the removed element go, those of the later
\* elements move down with their elements
removeErrors(errors, index) ==
  {e \in errors : e.field # "items" \/ e.index < index - 1}
  \cup {FieldError("items", e.index - 1, e.key) :
          e \in {x \in errors : x.field = "items" /\ x.index > index - 1}}

\* the remove button of card i
RemoveItem(i) ==
  /\ open
  /\ edits < MaxEdits
  /\ i \in 1..Len(items)
  /\ ~removeDisabled
  /\ items' = remove(items, i)
  /\ fieldErrors' = removeErrors(fieldErrors, i)
  /\ edits' = edits + 1
  /\ removes' = removes + 1
  /\ UNCHANGED << open, sales, originalSaleId, returnType, refundAmount,
                  mutationVars, effectVars, submits, resolved, productVars >>

NextDraft ==
  \/ FetchSales
  \/ \E saleId \in SaleIds : ChangeSale(saleId)
  \/ \E value \in ReturnTypeOptions : ChangeReturnType(value)
  \/ \E text \in RefundTexts : ChangeRefundAmount(text)
  \/ \E i \in 1..Len(items), value \in ProductIds : ChangeProduct(i, value)
  \/ \E i \in 1..Len(items), text \in ColorTexts : ChangeColor(i, text)
  \/ \E i \in 1..Len(items), text \in SizeTexts : ChangeSize(i, text)
  \/ \E i \in 1..Len(items), text \in QuantityTexts : ChangeQuantity(i, text)
  \/ AppendItem
  \/ \E i \in 1..Len(items) : RemoveItem(i)

\* the form from construction, under the user's edits
SpecDraft == Construct /\ [][NextDraft]_vars

(* ----------------------------- submission ------------------------------ *)
\* the form when the user turns to the submit button: mounted, the draft
\* filled in to any extent, from untouched to complete
Init ==
  /\ Mounted
  /\ sales \in {SalesUndefined, SalesLoaded}
  /\ originalSaleId \in FilledSaleIds
  /\ originalSaleId # "" => sales.defined
  /\ returnType \in FilledReturnTypes
  /\ refundAmount \in FilledRefunds
  /\ items \in UNION {[1..n -> FilledItems] : n \in 1..MaxItems}

\* createReturnMutation.mutate(body): the request is sent, the mutation pends
mutate(body) ==
  /\ status' = "pending"
  /\ inflight' = Append(inflight, body)
  /\ posts' = posts + 1

\* constraint validation of the browser (the form has no noValidate): every
\* quantity input, type="number" min="1", holds a value in range; the values
\* of the other inputs violate no constraint
checkValidity == \A i \in 1..Len(items) : items[i].quantity >= 1

\* the submit button: the browser fires the submit event when the controls
\* are valid, then form.handleSubmit(onSubmit) runs
Submit ==
  /\ open
  /\ ~isPending
  /\ checkValidity
  /\ submits < MaxSubmits
  /\ submits' = submits + 1
  /\ fieldErrors' = validate(draft)
  /\ IF validate(draft) = {}
     THEN mutate(buildPayload(draft))
     ELSE UNCHANGED mutationVars
  /\ UNCHANGED << open, sales, draftVars, effectVars, resolved, productVars,
                  edits, removes >>

\* the onClose prop: the parent unmounts the form
onClose ==
  /\ open' = FALSE
  /\ onCloseCalls' = onCloseCalls + 1

\* an onSuccess that leaves the products cache alone
GatewaySuccessStaleProducts ==
  /\ inflight # <<>>
  /\ inflight' = Tail(inflight)
  /\ status' = "success"
  /\ invalidated' = invalidated \cup {ReturnsKey, StatsKey}
  /\ toasts' = Append(toasts, SuccessToast)
  /\ onClose
  /\ UNCHANGED << sales, draftVars, fieldErrors, submits, posts, resolved, productVars,
                  edits, removes >>

\* the gateway answers 2xx: mutationFn resolves, onSuccess runs
GatewaySuccess ==
  /\ inflight # <<>>
  /\ inflight' = Tail(inflight)
  /\ status' = "success"
  /\ invalidated' = invalidated \cup {ReturnsKey, ProductsKey, StatsKey}
  /\ toasts' = Append(toasts, SuccessToast)
  /\ onClose
  /\ UNCHANGED << sales, draftVars, fieldErrors, submits, posts, resolved, productVars,
                  edits, removes >>

\* a description that is always the fallback
errorDescriptionFallback(error) == FallbackMessage

\* description: error instanceof Error ? error.message : fallback
errorDescription(error) ==
  IF error.isError THEN error.message ELSE FallbackMessage

\* a mutation that sends the failed request again by itself
GatewayFailureRetry(error) ==
  /\ inflight # <<>>
  /\ inflight' = Append(Tail(inflight), Head(inflight))
  /\ posts' = posts + 1
  /\ status' = "pending"
  /\ UNCHANGED << open, sales, draftVars, fieldErrors, toasts, invalidated,
                  onCloseCalls, submits, resolved, productVars,
                  edits, removes >>

\* the gateway answers non-2xx or the request rejects: onError runs
GatewayFailure(error) ==
  /\ inflight # <<>>
  /\ inflight' = Tail(inflight)
  /\ status' = "error"
  /\ toasts' = Append(toasts, [title |-> ErrorTitle,
                               description |-> errorDescription(error),
                               variant |-> "destructive"])
  /\ UNCHANGED << open, sales, draftVars, fieldErrors, invalidated,
                  onCloseCalls, submits, posts, resolved, productVars,
                  edits, removes >>

\* a cancel control that withdraws the pending request
CancelWithdraw ==
  /\ open
  /\ onClose
  /\ inflight' = <<>>
  /\ status' = "idle"
  /\ UNCHANGED << sales, draftVars, fieldErrors, posts, toasts, invalidated,
                  submits, resolved, productVars,
                  edits, removes >>

\* the cancel button
Cancel ==
  /\ open
  /\ onClose
  /\ UNCHANGED << sales, draftVars, fieldErrors, mutationVars, toasts,
                  invalidated, submits, resolved, productVars,
                  edits, removes >>

Next ==
  \/ Submit
  \/ GatewaySuccess
  \/ \E error \in Rejections : GatewayFailure(error)
  \/ Cancel

\* a filled form under submit, gateway answers and cancel
Spec == Init /\ [][Next]_vars

(* --------------------------- a whole session --------------------------- *)
\* the form from construction under every edit, submit, gateway answers and
\* cancel
NextSession ==
  \/ FetchSales
  \/ \E saleId \in SaleIds : ChangeSale(saleId)
  \/ \E value \in ReturnTypeOptions : ChangeReturnType(value)
  \/ \E text \in RefundTexts : ChangeRefundAmount(text)
  \/ \E i \in 1..Len(items), value \in ProductIds : ChangeProduct(i, value)
  \/ \E i \in 1..Len(items), text \in ColorTexts : ChangeColor(i, text)
  \/ \E i \in 1..Len(items), text \in SizeTexts : ChangeSize(i, text)
  \/ \E i \in 1..Len(items), text \in QuantityTexts : ChangeQuantity(i, text)
  \/ AppendItem
  \/ \E i \in 1..Len(items) : RemoveItem(i)
  \/ Submit
  \/ GatewaySuccess
  \/ \E error \in Rejections : GatewayFailure(error)
  \/ Cancel

SpecSession == Construct /\ [][NextSession]_vars

(* ----------------------- the product edit modal ----------------------- *)
\* the state of the return form, which the edit modal leaves alone
returnFormVars == << open, sales, draftVars, fieldErrors, mutationVars,
                     onCloseCalls, submits, resolved, edits, removes >>

\* the toast of updateProductMutation.onSuccess
UpdatedToast == [title |-> "updated",
                 description |-> "product updated",
                 variant |-> "default"]
\* the toast of updateProductMutation.onError
UpdateErrorToast == [title |-> "error",
                     description |-> "error while updating the product",
                     variant |-> "destructive"]

\* updateProductMutation.isPending, as a render reads it
updateIsPending == updateStatus = "pending"

\* handleInputChange(field, value): the named key is overwritten; setFormData
\* makes the modal render again at the end of the event
handleInputChange(field, value) ==
  /\ modalOpen
  /\ formData' = [formData EXCEPT ![field] = value]
  /\ renderedPending' = updateIsPending
  /\ UNCHANGED << modalOpen, updateStatus, puts, updates, onOpenChangeCalls,
                  responses, toasts, invalidated, returnFormVars >>

\* the required attribute of the four inputs: the browser fires no submit
\* event while one of them is empty
requiredFilled ==
  /\ formData.modelNumber # ""
  /\ formData.companyName # ""
  /\ formData.storePrice # ""
  /\ formData.onlinePrice # ""

\* the body of the PUT request built by mutationFn
putBody(data) ==
  [modelNumber |-> data.modelNumber,
   companyName |-> data.companyName,
   productType |-> data.productType,
   storePrice |-> data.storePrice,
   onlinePrice |-> data.onlinePrice]

\* a submit event of the modal: the button is the one of the last render
\* (disabled={updateProductMutation.isPending}); handleSubmit itself checks
\* nothing and calls updateProductMutation.mutate(formData), which sends the
\* request and makes it the mutation the hook observes (n: its number)
handleSubmit ==
  /\ modalOpen
  /\ ~renderedPending
  /\ requiredFilled
  /\ updates < MaxSubmits
  /\ updateStatus' = "pending"
  /\ puts' = Append(puts, [id |-> Product.id, body |-> putBody(formData),
                           n |-> updates + 1])
  /\ updates' = updates + 1
  /\ UNCHANGED << modalOpen, formData, onOpenChangeCalls, renderedPending,
                  responses, toasts, invalidated, returnFormVars >>

\* the render that follows a change of the mutation: react-query notifies the
\* hook in a later task, and only then the button is written again
Render ==
  /\ modalOpen
  /\ renderedPending # updateIsPending
  /\ renderedPending' = updateIsPending
  /\ UNCHANGED << modalOpen, formData, updateStatus, puts, updates,
                  onOpenChangeCalls, responses, toasts, invalidated,
                  returnFormVars >>

\* the requests in flight without the k-th
answered(k) == SubSeq(puts, 1, k - 1) \o SubSeq(puts, k + 1, Len(puts))

\* the status after request k has settled: the hook follows the mutation of
\* the latest mutate call only
settledStatus(k, outcome) ==
  IF puts[k].n = updates THEN outcome ELSE updateStatus

\* onOpenChange(false): the parent closes the modal
onOpenChangeFalse ==
  /\ modalOpen' = FALSE
  /\ onOpenChangeCalls' = onOpenChangeCalls + 1

\* response.ok for request k: mutationFn resolves, onSuccess runs
PutSuccess(k) ==
  /\ k \in 1..Len(puts)
  /\ puts' = answered(k)
  /\ responses' = Append(responses, [n |-> puts[k].n, outcome |-> "ok"])
  /\ updateStatus' = settledStatus(k, "success")
  /\ invalidated' = invalidated \cup {ProductsKey}
  /\ toasts' = Append(toasts, UpdatedToast)
  /\ onOpenChangeFalse
  /\ UNCHANGED << formData, updates, renderedPending, returnFormVars >>

\* an onError that also closes the modal
PutFailureCloses(k, failure) ==
  /\ k \in 1..Len(puts)
  /\ puts' = answered(k)
  /\ responses' = Append(responses, [n |-> puts[k].n, outcome |-> failure])
  /\ updateStatus' = settledStatus(k, "error")
  /\ toasts' = Append(toasts, UpdateErrorToast)
  /\ onOpenChangeFalse
  /\ UNCHANGED << formData, updates, renderedPending, invalidated,
                  returnFormVars >>

\* !response.ok throws for request k, or fetch rejects: onError runs, whatever
\* the error
PutFailure(k, failure) ==
  /\ k \in 1..Len(puts)
  /\ puts' = answered(k)
  /\ responses' = Append(responses, [n |-> puts[k].n, outcome |-> failure])
  /\ updateStatus' = settledStatus(k, "error")
  /\ toasts' = Append(toasts, UpdateErrorToast)
  /\ UNCHANGED << modalOpen, formData, updates, onOpenChangeCalls,
                  renderedPending, invalidated, returnFormVars >>

\* the cancel button of the modal, or the dialog being dismissed
ProductCancel ==
  /\ modalOpen
  /\ onOpenChangeFalse
  /\ UNCHANGED << formData, updateStatus, puts, updates, renderedPending,
                  responses, toasts, invalidated, returnFormVars >>

NextProduct ==
  \/ \E value \in ModelTexts \ {formData.modelNumber} :
       handleInputChange("modelNumber", value)
  \/ \E value \in CompanyTexts \ {formData.companyName} :
       handleInputChange("companyName", value)
  \/ \E value \in ProductTypeOptions \ {formData.productType} :
       handleInputChange("productType", value)
  \/ \E value \in PriceTexts \ {formData.storePrice} :
       handleInputChange("storePrice", value)
  \/ \E value \in PriceTexts \ {formData.onlinePrice} :
       handleInputChange("onlinePrice", value)
  \/ handleSubmit
  \/ Render
  \/ \E k \in 1..Len(puts) : PutSuccess(k)
  \/ \E k \in 1..Len(puts), failure \in PutFailures : PutFailure(k, failure)
  \/ ProductCancel

\* the edit modal from construction
SpecProduct == Construct /\ [][NextProduct]_vars

(* ------------------------- the resolver alone -------------------------- *)
\* values handed to the resolver, the empty item list included
ResolverItems ==
  { [productId |-> p, color |-> c, size |-> z, quantity |-> q] :
      p \in {"", "P1"}, c \in {"", "black"}, z \in {"", "L"}, q \in {0, 1, 2} }

InitValidate ==
  /\ Mounted
  /\ sales = SalesUndefined
  /\ originalSaleId \in {"", "S1"}
  /\ returnType \in {"", "refund"}
  /\ refundAmount \in {"", "0"}
  /\ items \in UNION {[1..n -> ResolverItems] : n \in 0..(MaxItems - 1)}

\* one run of zodResolver(returnFormSchema) on the values
Resolve ==
  /\ ~resolved.ran
  /\ resolved' = [ran |-> TRUE, errors |-> validate(draft)]
  /\ UNCHANGED << open, sales, draftVars, fieldErrors, mutationVars,
                  effectVars, submits, productVars,
                  edits, removes >>

NextValidate == Resolve

SpecValidate == InitValidate /\ [][NextValidate]_vars

(* ------------------- the sale-selector handler alone ------------------- *)
\* what useQuery can hold when the handler runs: nothing yet, the answer, an
\* answer without sales, or an answer that has lost the sale S0
SalesAnswers ==
  {SalesUndefined, SalesLoaded, [defined |-> TRUE, data |-> <<>>],
   [defined |-> TRUE, data |-> <<[id |-> "S1", total |-> "150.00"]>>]}

\* an untouched sale selector next to header fields in any state
InitSaleChange ==
  /\ Mounted
  /\ sales \in SalesAnswers
  /\ originalSaleId = ""
  /\ returnType \in FilledReturnTypes
  /\ refundAmount \in FilledRefunds
  /\ items = <<EmptyItem>>

\* the handler applied to an id, whether or not a sale of the collection has it
NextSaleChange == \E saleId \in HandlerSaleIds : onSaleValueChange(saleId)

SpecSaleChange == InitSaleChange /\ [][NextSaleChange]_vars

(* ------------------------------ claims --------------------------------- *)
\* the draft meets every constraint of the return form, spelled out field
\* by field
SubmittableDraft ==
  /\ originalSaleId # ""
  /\ returnType # ""
  /\ refundAmount # ""
  /\ Len(items) >= 1
  /\ \A i \in 1..Len(items) :
       /\ items[i].productId # ""
       /\ items[i].color # ""
       /\ items[i].size # ""
       /\ items[i].quantity >= 1

\* C1: a step sends a POST /api/returns request only if the draft at that
\* step has non-empty originalSaleId, returnType and refundAmount, at least
\* one item, and every item has non-empty productId, color, size and a
\* quantity of at least 1; a submit of any other draft sends nothing.
C1_NoRequestUnlessValid ==
  [][(posts' # posts \/ Len(inflight') > Len(inflight)) => SubmittableDraft]_vars

\* C1 witness: a submit was rejected by validation and nothing was sent
C1_Witness ==
  /\ submits >= 1
  /\ posts = 0
  /\ inflight = <<>>
  /\ fieldErrors # {}
  /\ ~SubmittableDraft

\* C2: at most one create-return request is in flight at any time, and the
\* mutation is pending (submit control disabled) as long as one is.
C2_AtMostOneInFlight ==
  /\ Len(inflight) <= 1
  /\ (inflight # <<>> => status = "pending")

\* C2 witness: a second request is in flight after the first one completed
C2_Witness ==
  /\ Len(inflight) = 1
  /\ posts >= 2
  /\ open

\* the last notification shown
LastToast == toasts[Len(toasts)]

\* C3: a failed submission shows exactly one error notification whose
\* description is the message of the error (the generic fallback when the
\* rejection carries none), leaves the form open, invalidates no cache and
\* changes no field of the draft.
C3_FailureKeepsDraft ==
  [][\A error \in Rejections :
       GatewayFailure(error) =>
         /\ Len(toasts') = Len(toasts) + 1
         /\ SubSeq(toasts', 1, Len(toasts)) = toasts
         /\ toasts'[Len(toasts')].variant = "destructive"
         /\ toasts'[Len(toasts')].title = ErrorTitle
         /\ toasts'[Len(toasts')].description =
              (IF error.isError THEN error.message ELSE FallbackMessage)
         /\ open' = open
         /\ onCloseCalls' = onCloseCalls
         /\ invalidated' = invalidated
         /\ originalSaleId' = originalSaleId
         /\ returnType' = returnType
         /\ refundAmount' = refundAmount
         /\ items' = items]_vars

\* C3 witness: a submission failed with the gateway's message, form open
C3_Witness ==
  /\ status = "error"
  /\ open
  /\ toasts # <<>>
  /\ LastToast.description = "stock mismatch"
  /\ invalidated = {}
  /\ SubmittableDraft

\* a pending submission completes successfully in this step
SuccessStep == status = "pending" /\ status' = "success"

\* C4: the step that completes a submission successfully invalidates the
\* returns, products and dashboard-statistics caches, shows the success
\* notification and calls onClose (the form is closed); no other step
\* invalidates a cache or shows the success notification, and onClose is
\* otherwise called by the cancel control only.
C4_SuccessEffects ==
  [][/\ SuccessStep =>
          /\ {ReturnsKey, ProductsKey, StatsKey} \subseteq invalidated'
          /\ toasts' = Append(toasts, SuccessToast)
          /\ onCloseCalls' = onCloseCalls + 1
          /\ ~open'
     /\ invalidated' # invalidated => SuccessStep
     /\ (Len(toasts') > Len(toasts) /\ toasts'[Len(toasts')] = SuccessToast)
          => SuccessStep
     /\ (onCloseCalls' # onCloseCalls \/ open' # open)
          => (SuccessStep \/ (open /\ status' = status))]_vars

\* C4 witness: a submission succeeded while the form was open
C4_Witness ==
  /\ status = "success"
  /\ invalidated = {ReturnsKey, ProductsKey, StatsKey}
  /\ toasts # <<>>
  /\ LastToast = SuccessToast
  /\ onCloseCalls = 1
  /\ ~open

\* C5: the form opens with exactly one empty item and the item list is never
\* empty afterwards, whatever the user appends and removes.
C5_ItemsNeverEmpty ==
  /\ items = <<EmptyItem>>
  /\ [](Len(items) >= 1)
  /\ [][Len(items) = 1 => Len(items') >= 1]_vars

\* C5 witness: after an append a remove click has left a single filled card,
\* whose remove button is disabled
C5_Witness ==
  /\ Len(items) = 1
  /\ removeDisabled
  /\ removes >= 1
  /\ items[1].productId = "P1"
  /\ items[1].color = "black"

\* the sale with this id is part of the loaded sales collection
SalePresent(saleId) ==
  sales.defined /\ \E k \in 1..Len(sales.data) : sales.data[k].id = saleId

\* C6: the handler of the sale selector sets refundAmount to the total of the
\* sale with the selected id when the loaded collection has one, and leaves
\* refundAmount as it was, showing no error, when the collection has none or
\* is not loaded.
C6_RefundFromSale ==
  [][\A saleId \in HandlerSaleIds :
       onSaleValueChange(saleId) =>
         /\ originalSaleId' = saleId
         /\ SalePresent(saleId) =>
              \A k \in 1..Len(sales.data) :
                sales.data[k].id = saleId => refundAmount' = sales.data[k].total
         /\ ~SalePresent(saleId) =>
              /\ refundAmount' = refundAmount
              /\ fieldErrors' = fieldErrors
              /\ toasts' = toasts]_vars

\* C6 witness: the second sale of the collection was selected and its total
\* taken over
C6_Witness ==
  /\ sales.defined
  /\ originalSaleId = "S1"
  /\ refundAmount = "150.00"
  /\ returnType = "refund"

\* C7: the resolver reports exactly the failing constraints: no error if and
\* only if every constraint holds, and otherwise one entry per failing
\* constraint, all together.
C7_ValidateExact ==
  resolved.ran =>
    /\ (resolved.errors = {}) <=> SubmittableDraft
    /\ (originalSaleId = "") <=> (FieldError("originalSaleId", -1, "") \in resolved.errors)
    /\ (returnType = "") <=> (FieldError("returnType", -1, "") \in resolved.errors)
    /\ (refundAmount = "") <=> (FieldError("refundAmount", -1, "") \in resolved.errors)
    /\ (items = <<>>) <=> (FieldError("items", -1, "") \in resolved.errors)
    /\ \A i \in 1..Len(items) :
         /\ (items[i].productId = "")
              <=> (FieldError("items", i - 1, "productId") \in resolved.errors)
         /\ (items[i].color = "")
              <=> (FieldError("items", i - 1, "color") \in resolved.errors)
         /\ (items[i].size = "")
              <=> (FieldError("items", i - 1, "size") \in resolved.errors)
         /\ (items[i].quantity < 1)
              <=> (FieldError("items", i - 1, "quantity") \in resolved.errors)
    /\ \A e \in resolved.errors :
         \/ e.index = -1 /\ e.key = ""
              /\ e.field \in {"originalSaleId", "returnType", "refundAmount", "items"}
         \/ e.field = "items" /\ e.index \in 0..(Len(items) - 1)
              /\ e.key \in {"productId", "color", "size", "quantity"}

\* C7 witness: a single all-empty item yields its three errors at index 0
C7_Witness ==
  /\ resolved.ran
  /\ items = <<EmptyItem>>
  /\ originalSaleId = ""
  /\ { FieldError("items", 0, "productId"), FieldError("items", 0, "color"),
       FieldError("items", 0, "size"), FieldError("originalSaleId", -1, "") }
       \subseteq resolved.errors

\* C8: the body of a request mirrors the draft at the submit step: the three
\* header fields, and the items in the same number and order, each with
\* exactly productId, color, size and quantity.
C8_PayloadMirrorsDraft ==
  [][posts' = posts + 1 =>
       /\ Len(inflight') >= 1
       /\ LET body == inflight'[Len(inflight')]
          IN /\ DOMAIN body = {"return", "items"}
             /\ body.return = [originalSaleId |-> originalSaleId,
                               returnType |-> returnType,
                               refundAmount |-> refundAmount]
             /\ Len(body.items) = Len(items)
             /\ \A i \in 1..Len(items) :
                  /\ DOMAIN body.items[i] = {"productId", "color", "size", "quantity"}
                  /\ body.items[i].productId = items[i].productId
                  /\ body.items[i].color = items[i].color
                  /\ body.items[i].size = items[i].size
                  /\ body.items[i].quantity = items[i].quantity]_vars

\* C8 witness: a request with two different items is in flight
C8_Witness ==
  /\ Len(inflight) = 1
  /\ Len(inflight[1].items) = 2
  /\ inflight[1].items[1] # inflight[1].items[2]
  /\ inflight[1].items[1] = items[1]

\* C9: requests never outnumber submit actions, every request is sent by a
\* step that is a submit action, and a failure leaves no request in flight
\* and the submit control enabled.
C9_NoAutomaticRetry ==
  /\ [](posts <= submits /\ (status = "error" => inflight = <<>>))
  /\ [][/\ posts' # posts => (posts' = posts + 1 /\ submits' = submits + 1)
        /\ Len(inflight') > Len(inflight) => submits' = submits + 1
        /\ (status = "pending" /\ status' = "error")
             => (inflight' = <<>> /\ posts' = posts /\ submits' = submits)]_vars

\* C9 witness: after a failure the user has submitted again
C9_Witness ==
  /\ posts = 2
  /\ submits = 2
  /\ Len(toasts) = 1
  /\ LastToast.variant = "destructive"
  /\ Len(inflight) = 1

\* C10: a step that lengthens the item list puts one empty item last and
\* keeps the earlier items in place, and a step that takes the last item away
\* leaves exactly the items before it, so that removing the last item right
\* after an append gives the earlier sequence back.
C10_AppendThenRemoveLast ==
  [][/\ Len(items') > Len(items) =>
          /\ Len(items') = Len(items) + 1
          /\ SubSeq(items', 1, Len(items)) = items
          /\ items'[Len(items')] = EmptyItem
     /\ \A i \in 1..Len(items) :
          RemoveItem(i) =>
            items' = SubSeq(items, 1, i - 1) \o SubSeq(items, i + 1, Len(items))
     /\ (Len(items) >= 2 /\ RemoveItem(Len(items))) =>
          items' \o <<items[Len(items)]>> = items]_vars

\* C10 witness: items were appended after two cards, the first of them filled,
\* and a remove click has taken a card away again
C10_Witness ==
  /\ Len(items) = 3
  /\ removes = 1
  /\ items[1].productId = "P1"
  /\ items[2] = EmptyItem
  /\ items[3] = EmptyItem

\* C12: refundAmount changes only in a step that changes the selected sale,
\* which sets it to the total of the sale now selected whatever was typed
\* before, or in a step that changes nothing else of the draft and stores one
\* of the typed texts; a step that changes the sales, the return type or the
\* items leaves it alone.
C12_RefundOnlyBySelectionOrInput ==
  [][/\ refundAmount' # refundAmount =>
          \/ originalSaleId' # originalSaleId
          \/ /\ refundAmount' \in RefundTexts
             /\ originalSaleId' = originalSaleId
             /\ returnType' = returnType
             /\ items' = items
             /\ sales' = sales
     /\ originalSaleId' # originalSaleId =>
          /\ \E k \in 1..Len(sales.data) : sales.data[k].id = originalSaleId'
          /\ \A k \in 1..Len(sales.data) :
               sales.data[k].id = originalSaleId' =>
                 refundAmount' = sales.data[k].total
     /\ (sales' # sales \/ returnType' # returnType \/ items' # items) =>
          refundAmount' = refundAmount]_vars

\* C12 witness: after the sale was selected and found, the user has typed an
\* amount of their own, picked a return type and added an item
C12_Witness ==
  /\ sales.defined
  /\ originalSaleId = "S1"
  /\ refundAmount = "20"
  /\ returnType = "exchange"
  /\ Len(items) = 2

\* C13: the cancel control leaves a pending request in flight, and when the
\* request succeeds after the form was closed the returns, products and
\* dashboard-statistics caches are invalidated all the same.
C13_NoCancellation ==
  [][/\ Cancel => (inflight' = inflight /\ status' = status /\ posts' = posts)
     /\ (~open /\ SuccessStep) =>
          /\ {ReturnsKey, ProductsKey, StatsKey} \subseteq invalidated'
          /\ inflight' = Tail(inflight)]_vars

\* C13 witness: the form was cancelled with a request pending, which then
\* succeeded
C13_Witness ==
  /\ ~open
  /\ onCloseCalls = 2
  /\ status = "success"
  /\ inflight = <<>>
  /\ invalidated = {ReturnsKey, ProductsKey, StatsKey}

\* C14: in every reachable state of the draft every item has a quantity of
\* at least 1.
C14_QuantityAtLeastOne ==
  \A i \in 1..Len(items) : items[i].quantity >= 1

\* C15: every request body sent to the gateway carries a returnType of
\* refund or exchange: the selector offers only these two values and the
\* schema stops the empty initial value.
C15_ReturnTypeOfPayload ==
  /\ \A k \in 1..Len(inflight) :
       inflight[k].return.returnType \in {"refund", "exchange"}
  /\ returnType \in {"", "refund", "exchange"}

\* C15 witness: a request with the second option is in flight, sent from a
\* draft the user built from the default values
C15_Witness ==
  /\ Len(inflight) = 1
  /\ inflight[1].return.returnType = "exchange"
  /\ inflight[1].return.originalSaleId = "S0"
  /\ posts = 1

\* a PUT request is answered in this step: with success / with a failure
PutAnswered == Len(responses') = Len(responses) + 1
PutSuccessStep ==
  PutAnswered /\ responses'[Len(responses')].outcome = "ok"
PutFailureStep ==
  PutAnswered /\ responses'[Len(responses')].outcome \in PutFailures

\* C11: the step in which a PUT succeeds invalidates the products cache
\* and closes the modal, and no other step of an update does (the modal
\* otherwise closes only by its cancel, which answers no request); the step
\* in which a PUT fails shows one error notification, invalidates nothing,
\* leaves the modal open or closed as it was and the form data as they were.
C11_UpdateEffects ==
  [][/\ PutSuccessStep =>
          /\ ProductsKey \in invalidated'
          /\ ~modalOpen'
          /\ onOpenChangeCalls' = onOpenChangeCalls + 1
     /\ invalidated' # invalidated => PutSuccessStep
     /\ (modalOpen' # modalOpen \/ onOpenChangeCalls' # onOpenChangeCalls)
          => (PutSuccessStep \/ (modalOpen /\ ~PutAnswered))
     /\ PutFailureStep =>
          /\ toasts' = Append(toasts, UpdateErrorToast)
          /\ invalidated' = invalidated
          /\ modalOpen' = modalOpen
          /\ onOpenChangeCalls' = onOpenChangeCalls
          /\ formData' = formData]_vars

\* C11 witness: an update of edited data has failed, the modal is still open
\* with the edited data, nothing was invalidated
C11_Witness ==
  /\ responses # <<>>
  /\ responses[Len(responses)].outcome = "not ok"
  /\ updateStatus = "error"
  /\ modalOpen
  /\ formData.modelNumber = "M2"
  /\ formData.productType = "hijab"
  /\ toasts # <<>>
  /\ LastToast = UpdateErrorToast
  /\ invalidated = {}

====
